---- MODULE Spec2Model ----
(***************************************************************************)
(* LoopSleuth: the scan-ingest-deduplicate pipeline.                       *)
(*                                                                         *)
(* The catalog is the SQLite database (tables clips, clip_tags,            *)
(* playlist_clips, scans).  A scan is one run of ingest_directory          *)
(* (scanner.py), started directly or by the scan_folder endpoint           *)
(* (web/app.py) under the scan.lock file.  The review resolver is the      *)
(* duplicate_action endpoint.  Each connection sees the committed          *)
(* database plus its own uncommitted writes; an open write transaction     *)
(* of one connection makes every other connection's write fail with        *)
(* "database is locked".                                                   *)
(***************************************************************************)
EXTENDS Integers, Sequences, FiniteSets, TLC

\* ---------------------------------------------------------------- bounds
NumPaths == 3          \* video files the scanned folder can hold
MaxScans == 2          \* ingest_directory runs in one behaviour
MaxEvents == 1         \* events of the environment in one behaviour: changes
                       \* of the folder, review and tagging requests, failures
                       \* of the external tools
MaxRequests == 3       \* scan_folder requests in one behaviour
MaxTime == 2           \* hours the clock advances in one behaviour
MaxLiveRequests == 2   \* scan_folder requests in one behaviour of the
                       \* specification with fairness
MaxReviewEvents == 4   \* review, tag and playlist requests in one behaviour
                       \* of the review resolver
MaxReviewScans == 1    \* scans in one behaviour of the review resolver
NumOther == 2          \* files that are not videos the folder can hold
MaxHexLen == 2         \* hex digits of a fingerprint given to hamming_distance
MaxSwapEvents == 2     \* changes of the folder in one behaviour of the
                       \* specification of rescans of changed files

\* ------------------------------------------------------- program constants
threshold == 5         \* scanner.py: Hamming distance threshold
StaleHours == 1        \* web/app.py: timedelta(hours=1), the lock's staleness

NULL == 0              \* SQL NULL of an integer column (row ids start at 1)
NoHash == << >>        \* SQL NULL of the phash column

Paths == 1..NumPaths
OtherPaths == (NumPaths + 1)..(NumPaths + NumOther)
Entries == Paths \cup OtherPaths
Scanners == {1, 2}     \* ingest_directory runs that can be alive at once

\* The fingerprints calculate_phash yields for the file contents of the
\* model, as hex digit strings.  00 and 07 differ in 3 bits, 07 and 3f in 3,
\* 00 and 3f in 6: exact, near and unique pairs, and a near relation that is
\* not transitive.
Contents == {<<0, 0>>, <<0, 7>>, <<3, 15>>}
Absent == << >>        \* no file at the path

DUPLICATE_HANDLING_MODES == {"skip", "mark-for-review", "log", "auto-merge", "other"}

\* A folder that holds the video files d and nothing else.
VideosOnly(d) == [p \in Entries |-> IF p \in Paths THEN d[p] ELSE Absent]

\* -------------------------------------------------- hamming_distance
Min(a, b) == IF a <= b THEN a ELSE b

\* int(h, 16)
RECURSIVE HexToInt(_)
HexToInt(h) ==
    IF Len(h) = 0 THEN 0
    ELSE 16 * HexToInt(SubSeq(h, 1, Len(h) - 1)) + h[Len(h)]

\* bin(n)[2:] : the binary digits of n without leading zeros ("0" for 0)
RECURSIVE Bin(_)
Bin(n) ==
    IF n < 2 THEN <<n>> ELSE Append(Bin(n \div 2), n % 2)

\* str.zfill(width): pad on the left with zeros up to width
ZFill(s, width) ==
    IF Len(s) >= width THEN s
    ELSE [i \in 1..(width - Len(s)) |-> 0] \o s

\* A distance that pads only the first fingerprint: with it in place of
\* hamming_distance the distance depends on the order of its arguments and
\* C24 fails.
hamming_distance_PadsFirst(hash1, hash2) ==
    LET b1 == ZFill(Bin(HexToInt(hash1)), Len(hash1) * 4)
        b2 == Bin(HexToInt(hash2))
    IN  Cardinality({i \in 1..Min(Len(b1), Len(b2)) : b1[i] # b2[i]})

\* sum(c1 != c2 for c1, c2 in zip(b1, b2)): zip stops at the shorter string
hamming_distance(hash1, hash2) ==
    LET b1 == ZFill(Bin(HexToInt(hash1)), Len(hash1) * 4)
        b2 == ZFill(Bin(HexToInt(hash2)), Len(hash2) * 4)
    IN  Cardinality({i \in 1..Min(Len(b1), Len(b2)) : b1[i] # b2[i]})

\* ------------------------------------------------------------------ state
VARIABLES
    disk,       \* the scanned folder: path -> content of the file, or Absent
    mode,       \* DUPLICATE_HANDLING_MODE, read from the environment at import
    ffprobe,    \* whether the ffprobe executable is installed
    committed,  \* the database as committed: what a new connection reads
    working,    \* the database as the connection with the open write
                \* transaction sees it (equal to committed when there is none)
    writer,     \* the scanner whose connection holds the open write
                \* transaction, or NULL
    progress,   \* the content of .loopsleuth_data/scan_progress.json
    lock,       \* .loopsleuth_data/scan.lock: whether it exists, and its mtime
    now,        \* the wall clock, in hours
    sc,         \* per ingest_directory run: its local variables and position
    hist        \* history: what happened since the last cleanly completed
                \* scan, and how many operations the behaviour has used

vars == <<disk, mode, ffprobe, committed, working, writer, progress, lock, now, sc, hist>>

\* ---------------------------------------------------------------- catalog
\* db.py create_table / migrate_clips_table: the empty schema.  clips rows
\* carry the columns the pipeline reads or writes; seq_clips and seq_scans
\* are the AUTOINCREMENT counters of sqlite_sequence.
EmptyCatalog ==
    [clips |-> {}, clip_tags |-> {}, playlist_clips |-> {},
     seq_clips |-> 0, seq_scans |-> 0]

\* INSERT INTO clips (path, filename, duration, width, height, size,
\* codec_name, modified_at, scan_id): every other column takes its default.
NewClip(id, path, meta, duration, scan_id) ==
    [id |-> id, path |-> path, scan_id |-> scan_id, meta |-> meta,
     duration |-> duration, thumbnail_path |-> FALSE, phash |-> NoHash,
     needs_review |-> FALSE, duplicate_of |-> NULL]

Ids(cat) == {c.id : c \in cat.clips}
ClipById(cat, id) == CHOOSE c \in cat.clips : c.id = id

\* UPDATE clips SET ... WHERE id = ?
UpdateClip(cat, id, F(_)) ==
    [cat EXCEPT !.clips = {IF c.id = id THEN F(c) ELSE c : c \in cat.clips}]

\* A DELETE that matches no row: with it in place of DeleteClip the skip
\* policy keeps the duplicate's row and C8 fails.
DeleteClip_NoRow(cat, id) == cat

\* DELETE FROM clips WHERE id = ?  (get_db_connection never issues
\* PRAGMA foreign_keys = ON, so SQLite does not run the ON DELETE CASCADE
\* of clip_tags and playlist_clips)
DeleteClip(cat, id) ==
    [cat EXCEPT !.clips = {c \in cat.clips : c.id # id}]

\* The clips awaiting review.
Flagged(cat) == {c.id : c \in {d \in cat.clips : d.needs_review}}

\* No review request recorded.
NoRequest == [action |-> "none"]

\* What the connection of scanner w reads.
View(w) == IF writer = w THEN working ELSE committed

\* Whether a write statement of scanner w gets the database's write lock.
CanWrite(w) == writer \in {NULL, w}

\* The duplicate query without its "id != ?" clause: with it in place of
\* DupRows a forced rescan matches a clip against its own stored
\* fingerprint and C9 fails.
DupRows_WithSelf(cat, clip_id) ==
    {c \in cat.clips : c.phash # NoHash}

\* ------------------------------------------------- the duplicate clusterer
\* scanner.py 219-235: SELECT ... FROM clips WHERE phash IS NOT NULL AND
\* id != ?, then the first row within the threshold (distance 0 and
\* distance <= threshold both take the row and break).  The SELECT has no
\* ORDER BY; SQLite walks the table in rowid order, ascending id.
DupRows(cat, clip_id) ==
    {c \in cat.clips : c.phash # NoHash /\ c.id # clip_id}

DupMatches(cat, clip_id, phash_str) ==
    {c \in DupRows(cat, clip_id) : hamming_distance(phash_str, c.phash) <= threshold}

\* A loop that does not break at its first match and ends up with the last
\* one: with it in place of FirstId the canonical is the matching clip of
\* highest id and C32 fails.
FirstId_Last(rows) ==
    CHOOSE i \in {c.id : c \in rows} : \A c \in rows : i >= c.id

FirstId(rows) ==
    CHOOSE i \in {c.id : c \in rows} : \A c \in rows : i <= c.id

\* scanner.py 236-261: the disposition of the clip just fingerprinted.
\* The result is the catalog and whether conn.commit() ran.
Disposition(cat, clip_id, phash_str) ==
    LET matches == DupMatches(cat, clip_id, phash_str)
        dup_found == matches # {}
        canonical_id == FirstId(matches)
        flagged == UpdateClip(cat, clip_id,
                     LAMBDA c : [c EXCEPT !.needs_review = TRUE,
                                          !.duplicate_of = canonical_id])
    IN  IF dup_found
        THEN CASE mode = "skip" ->
                    [cat |-> DeleteClip(cat, clip_id), commit |-> TRUE]
               [] mode = "mark-for-review" ->
                    [cat |-> flagged, commit |-> TRUE]
               [] mode \in {"log", "auto-merge"} ->
                    [cat |-> cat, commit |-> FALSE]
               [] OTHER ->
                    [cat |-> flagged, commit |-> TRUE]
        ELSE [cat |-> UpdateClip(cat, clip_id,
                        LAMBDA c : [c EXCEPT !.phash = phash_str]),
              commit |-> FALSE]

\* What the external tools do for one file: the probe fails (FFprobeError),
\* reports no duration, the static preview fails, the hash fails, or all
\* succeed.
Outcomes == {"ok", "probefail", "nodur", "thumbfail", "hashfail"}

\* A pipeline that drops the row of a file whose preview or fingerprint
\* failed: with it in place of Pipeline the failure removes catalog state
\* and C34 fails.
Pipeline_DropOnFailure(cat, clip_id, content, outcome) ==
    IF outcome \in {"nodur", "thumbfail", "hashfail"}
    THEN [cat |-> DeleteClip(cat, clip_id), commit |-> FALSE]
    ELSE Disposition(UpdateClip(cat, clip_id,
                       LAMBDA c : [c EXCEPT !.thumbnail_path = TRUE]),
                     clip_id, content)

\* scanner.py 171-267: preview, then fingerprint, then the clusterer.
Pipeline(cat, clip_id, content, outcome) ==
    IF outcome \in {"nodur", "thumbfail"}
    THEN [cat |-> cat, commit |-> FALSE]
    ELSE LET cat2 == UpdateClip(cat, clip_id,
                       LAMBDA c : [c EXCEPT !.thumbnail_path = TRUE])
         IN  IF outcome = "hashfail"
             THEN [cat |-> cat2, commit |-> FALSE]
             ELSE Disposition(cat2, clip_id, content)

\* A probe whose FFprobeError is swallowed: with it in place of
\* get_video_metadata the walk inserts a row for a file whose probe failed
\* and C16 fails.
get_video_metadata_NoError(content, outcome) ==
    IF content = Absent \/ ~ffprobe THEN "FileNotFoundError" ELSE "meta"

\* metadata.py 79-149 get_video_metadata: FileNotFoundError when the path is
\* not a file (94-95) or the ffprobe executable is missing, FFprobeError
\* when ffprobe fails on the file, the metadata otherwise.
get_video_metadata(content, outcome) ==
    IF content = Absent \/ ~ffprobe THEN "FileNotFoundError"
    ELSE IF outcome = "probefail" THEN "FFprobeError"
    ELSE "meta"

\* A lookup that never finds the path: with it in place of ExistingClip a
\* forced rescan inserts a second row for a cataloged path and C22 fails.
ExistingClip_None(cat, path) ==
    {}

\* scanner.py 119-120: SELECT id FROM clips WHERE path = ?
ExistingClip(cat, path) ==
    {c \in cat.clips : c.path = path}

\* A walk that skips nothing: with it in place of SkipExisting a plain
\* rescan probes the cataloged file again and rewrites its row, and C27
\* fails.
SkipExisting_Never(existing, force) ==
    FALSE

\* scanner.py 121: if existing and not force_rescan
SkipExisting(existing, force) ==
    existing # {} /\ ~force

\* scanner.py 113-280: one iteration of the walk, for the file at `path`
\* holding `content`, by a scan with the given force_rescan and scan_id,
\* reading and writing catalog `cat`; canWrite is whether its first write
\* statement gets the write lock.
FileStep(cat, path, content, force, scan_id, outcome, canWrite) ==
    LET existing == ExistingClip(cat, path)
        none == [kind |-> "skipped", cat |-> cat, commit |-> FALSE, id |-> NULL]
    IN  IF SkipExisting(existing, force)
        THEN none
        ELSE IF get_video_metadata(content, outcome) = "FileNotFoundError"
        THEN [none EXCEPT !.kind = "abort"]
        ELSE IF get_video_metadata(content, outcome) = "FFprobeError" \/ ~canWrite
        THEN [none EXCEPT !.kind = "error"]
        ELSE LET duration == IF outcome = "nodur" THEN 0 ELSE 1
                 clip_id == IF existing # {}
                            THEN (CHOOSE c \in existing : TRUE).id
                            ELSE cat.seq_clips + 1
                 cat1 == IF existing # {}
                         THEN UpdateClip(cat, clip_id,
                                LAMBDA c : [c EXCEPT !.meta = content,
                                                     !.duration = duration,
                                                     !.scan_id = scan_id])
                         ELSE [cat EXCEPT
                                 !.clips = @ \cup {NewClip(clip_id, path, content,
                                                           duration, scan_id)},
                                 !.seq_clips = clip_id]
                 r == Pipeline(cat1, clip_id, content, outcome)
             IN  [kind |-> "done", cat |-> r.cat, commit |-> r.commit, id |-> clip_id]

\* A prune that only drops the rows without a scan id: with it in place of
\* PruneStale the rows of earlier scans survive and C4 fails.
PruneStale_NullOnly(cat, scan_id) ==
    [cat EXCEPT !.clips = {c \in cat.clips : c.scan_id # NULL}]

\* scanner.py 283: DELETE FROM clips WHERE scan_id != ? OR scan_id IS NULL
PruneStale(cat, scan_id) ==
    [cat EXCEPT !.clips = {c \in cat.clips : c.scan_id = scan_id}]

\* ------------------------------------------------------- ingest_directory
\* The elements of a set of numbers, ascending.
RECURSIVE Sorted(_)
Sorted(S) ==
    IF S = {} THEN << >>
    ELSE LET m == CHOOSE x \in S : \A y \in S : x <= y
         IN  <<m>> \o Sorted(S \ {m})

\* The names of the folder's entries.  Entry p of Paths is a file with a
\* video suffix, in lower or in upper case; the entries of OtherPaths are
\* files with another suffix or with none.  The entries with an even number
\* lie in a subfolder, the others in the scanned folder itself.
VideoSuffixes ==
    << <<".", "m", "p", "4">>, <<".", "M", "O", "V">>, <<".", "m", "k", "v">> >>

OtherSuffixes ==
    << <<".", "t", "x", "t">>, << >> >>

Suffix(p) ==
    IF p \in Paths
    THEN VideoSuffixes[((p - 1) % Len(VideoSuffixes)) + 1]
    ELSE OtherSuffixes[((p - NumPaths - 1) % Len(OtherSuffixes)) + 1]

Depth(p) == IF p % 2 = 0 THEN 1 ELSE 0

\* The upper-case letters of the names, each with its lower-case form.
CasePairs ==
    {<<"M", "m">>, <<"O", "o">>, <<"V", "v">>, <<"P", "p">>, <<"K", "k">>,
     <<"T", "t">>, <<"X", "x">>, <<"A", "a">>, <<"I", "i">>}

\* A comparison of the suffix as it is spelled: with it in place of Lower
\* a file named in upper case is not enumerated and C23 fails.
Lower_AsSpelled(s) ==
    s

\* str.lower()
Lower(s) ==
    [i \in 1..Len(s) |->
        IF \E pr \in CasePairs : pr[1] = s[i]
        THEN (CHOOSE pr \in CasePairs : pr[1] = s[i])[2]
        ELSE s[i]]

\* scanner.py 30-37
DEFAULT_VIDEO_EXTENSIONS ==
    {<<".", "m", "o", "v">>, <<".", "m", "p", "4">>,
     <<".", "a", "v", "i">>, <<".", "m", "k", "v">>}

\* start_path.rglob("*"): the entries of the folder and of every folder
\* below it.
rglob ==
    {p \in Entries : disk[p] # Absent /\ Depth(p) >= 0}

\* scanner.py 47-55 _scan_directory_internal: the files under the folder
\* whose suffix, in lower case, is a video extension.
scan_directory_internal ==
    {p \in rglob : Lower(Suffix(p)) \in DEFAULT_VIDEO_EXTENSIONS}

\* scanner.py 104-105: list(_scan_directory_internal(start_path)).  rglob
\* yields the files in directory order; the model numbers the paths in that
\* order, and any content can be at any place of it.
VideoFiles == Sorted(scan_directory_internal)

NoRecord == [total |-> 0, done |-> 0, status |-> "none"]

IdleScan ==
    [pc |-> "idle", via |-> "none", force |-> FALSE, scan_id |-> NULL,
     files |-> << >>, idx |-> 0, aborted |-> FALSE,
     \* history of the run, for the scenarios
     allOk |-> TRUE, ids |-> << >>, start |-> {}, since |-> "none",
     \* places in `files` of the files whose probe raised FFprobeError, and
     \* of those found gone from the disk when their turn came
     failed |-> {}, vanished |-> {},
     \* ids of the clips whose preview and fingerprint the walk generated
     regen |-> {},
     \* the progress record this run wrote last
     wrote |-> NoRecord]

Running(w) == sc[w].pc \notin {"idle", "returned"}
InIngest(w) == sc[w].pc \in {"open", "loop", "prune", "report", "thumbs"}

Progress(total, done, status) == [total |-> total, done |-> done, status |-> status]

\* A direct call ingest_directory(start_path, db_path, force_rescan=force),
\* as the command line (ingest.py) and the tests make it: one at a time.
DirectCall(w, force) ==
    /\ \A v \in Scanners : ~Running(v)
    /\ hist.scans < hist.scanlimit
    /\ sc' = [sc EXCEPT ![w] = [IdleScan EXCEPT !.pc = "call", !.via = "direct",
                                                !.force = force]]
    /\ hist' = [hist EXCEPT !.scans = @ + 1, !.last = NoRequest]
    /\ UNCHANGED <<disk, mode, ffprobe, committed, working, writer, progress, lock, now>>

\* scanner.py 74-87: write the 'scanning' record, then return at once when
\* start_path is not a directory.
IngestEnter(w, isdir) ==
    /\ sc[w].pc = "call"
    /\ progress' = Progress(0, 0, "scanning")
    /\ sc' = [sc EXCEPT ![w].pc = IF isdir THEN "open" ELSE "returned",
                        ![w].allOk = isdir,
                        ![w].wrote = Progress(0, 0, "scanning")]
    /\ UNCHANGED <<disk, mode, ffprobe, committed, working, writer, lock, now, hist>>

\* scanner.py 91-109: connect, INSERT INTO scans, enumerate the files, write
\* the initial progress.  A write refused by another connection's open
\* transaction raises sqlite3.OperationalError: 309-313 and 319-321.
IngestOpen(w) ==
    /\ sc[w].pc = "open"
    /\ IF CanWrite(w)
       THEN LET cat == View(w)
                files == VideoFiles
                scan_id == cat.seq_scans + 1
            IN  /\ working' = [cat EXCEPT !.seq_scans = scan_id]
                /\ writer' = w
                /\ progress' = Progress(Len(files), 0, "scanning")
                /\ sc' = [sc EXCEPT ![w].pc = IF Len(files) = 0 THEN "prune" ELSE "loop",
                                    ![w].scan_id = scan_id,
                                    ![w].files = files,
                                    ![w].start = cat.clips,
                                    ![w].since = hist.stable,
                                    ![w].wrote = Progress(Len(files), 0, "scanning")]
       ELSE /\ progress' = Progress(0, 0, "error")
            /\ sc' = [sc EXCEPT ![w].pc = "returned", ![w].allOk = FALSE,
                                ![w].wrote = Progress(0, 0, "error")]
            /\ UNCHANGED <<working, writer>>
    /\ UNCHANGED <<disk, mode, ffprobe, committed, lock, now, hist>>

\* scanner.py 113-280: one iteration of the walk.
ProcessFile(w, outcome) ==
    /\ sc[w].pc = "loop"
    /\ LET idx == sc[w].idx
           path == sc[w].files[idx + 1]
           r == FileStep(View(w), path, disk[path], sc[w].force, sc[w].scan_id,
                         outcome, CanWrite(w))
           last == idx + 1 = Len(sc[w].files)
           total == Len(sc[w].files)
       IN  /\ IF r.kind = "done" \/ (r.kind = "error" /\ outcome = "probefail")
              THEN IF outcome = "ok"
                   THEN UNCHANGED hist
                   ELSE /\ hist.events < hist.limit
                        /\ hist' = [hist EXCEPT !.events = @ + 1]
              ELSE outcome = "ok" /\ UNCHANGED hist
           /\ CASE r.kind = "done" /\ r.commit ->
                     committed' = r.cat /\ working' = r.cat /\ writer' = NULL
                [] r.kind = "done" /\ ~r.commit ->
                     working' = r.cat /\ writer' = w /\ UNCHANGED committed
                [] OTHER ->
                     UNCHANGED <<committed, working, writer>>
           /\ progress' = IF r.kind = "abort"
                          THEN Progress(total, idx, "error")
                          ELSE Progress(total, idx + 1, "scanning")
           /\ sc' = [sc EXCEPT
                       ![w].pc = IF r.kind = "abort" \/ last THEN "prune" ELSE "loop",
                       ![w].idx = IF r.kind = "abort" THEN idx ELSE idx + 1,
                       ![w].aborted = (r.kind = "abort"),
                       ![w].ids = Append(@, r.id),
                       ![w].failed = IF outcome = "probefail"
                                     THEN @ \cup {idx + 1} ELSE @,
                       ![w].vanished = IF r.kind # "skipped" /\ disk[path] = Absent
                                       THEN @ \cup {idx + 1} ELSE @,
                       ![w].regen = IF r.kind = "done" /\ outcome \in {"ok", "hashfail"}
                                    THEN @ \cup {r.id} ELSE @,
                       ![w].wrote = IF r.kind = "abort"
                                    THEN Progress(total, idx, "error")
                                    ELSE Progress(total, idx + 1, "scanning"),
                       ![w].allOk = @ /\ (r.kind = "skipped"
                                          \/ (r.kind = "done" /\ outcome = "ok"))]
    /\ UNCHANGED <<disk, mode, ffprobe, lock, now>>

\* scanner.py 282-285: reached when the walk ends, by exhaustion or by the
\* break of 146.  Delete every clip not stamped by this scan, and commit.
Prune(w) ==
    /\ sc[w].pc = "prune"
    /\ IF CanWrite(w)
       THEN LET cat == PruneStale(View(w), sc[w].scan_id)
            IN  /\ committed' = cat
                /\ working' = cat
                /\ writer' = NULL
                /\ sc' = [sc EXCEPT ![w].pc = "report"]
                /\ UNCHANGED progress
       ELSE /\ progress' = Progress(0, 0, "error")
            /\ sc' = [sc EXCEPT ![w].pc = "returned", ![w].allOk = FALSE,
                                ![w].wrote = Progress(0, 0, "error")]
            /\ UNCHANGED <<committed, working, writer>>
    /\ UNCHANGED <<disk, mode, ffprobe, lock, now, hist>>

\* scanner.py 291-293: the final status.
Report(w) ==
    /\ sc[w].pc = "report"
    /\ progress' = Progress(Len(sc[w].files), Len(sc[w].files), "complete")
    /\ sc' = [sc EXCEPT ![w].pc = "thumbs",
                        ![w].wrote = Progress(Len(sc[w].files), Len(sc[w].files),
                                              "complete")]
    /\ hist' = [hist EXCEPT !.stable = IF sc[w].allOk THEN "same" ELSE "none"]
    /\ UNCHANGED <<disk, mode, ffprobe, committed, working, writer, lock, now>>

\* thumbnailer.py 309-484 process_thumbnails, called at scanner.py 295-307:
\* for the clips with a duration (all of them when forced, those without a
\* thumbnail_path otherwise) whose video file exists, generate the preview;
\* `made` are the clips for which it succeeds.  Its connection commits each
\* UPDATE on its own.  Then scanner.py 319-321 closes the connection.
ThumbTargets(cat, force) ==
    {c.id : c \in {d \in cat.clips : /\ d.duration > 0
                                     /\ (force \/ ~d.thumbnail_path)
                                     /\ disk[d.path] # Absent}}

PostThumbnails(w, made) ==
    /\ sc[w].pc = "thumbs"
    /\ made \subseteq ThumbTargets(committed, sc[w].force)
    /\ IF writer = NULL
       THEN LET cat == [committed EXCEPT
                          !.clips = {IF c.id \in made
                                     THEN [c EXCEPT !.thumbnail_path = TRUE]
                                     ELSE c : c \in committed.clips}]
            IN  committed' = cat /\ working' = cat
       ELSE UNCHANGED <<committed, working>>
    /\ sc' = [sc EXCEPT ![w].pc = "returned"]
    /\ UNCHANGED <<disk, mode, ffprobe, writer, progress, lock, now, hist>>

\* The process is killed while ingest_directory runs: nothing of the
\* function runs any more, neither its except handlers nor its finally
\* clause; the open transaction of its connection is rolled back by SQLite,
\* and the files it wrote stay as they are.
Kill(w) ==
    /\ InIngest(w)
    /\ sc' = [sc EXCEPT ![w].pc = "killed"]
    /\ working' = committed
    /\ writer' = IF writer = w THEN NULL ELSE writer
    /\ UNCHANGED <<disk, mode, ffprobe, committed, progress, lock, now, hist>>

\* ------------------------------------------------------------ scan_folder
\* web/app.py 356-364: the request finds no lock, or a stale one and
\* unlinks it, and goes on to create its own; or it finds a lock younger
\* than an hour and answers 409.  The endpoint is a plain def: the server
\* runs each request in a thread of its pool, so that two requests
\* interleave between this check and the creation of the lock.
NoLock == [exists |-> FALSE, mtime |-> 0]

\* A lock that never goes stale: with it in place of LockIsFresh a request
\* that finds an abandoned lock is rejected and C21 fails.
LockIsFresh_Always ==
    lock.exists

LockIsFresh ==
    lock.exists /\ now - lock.mtime < StaleHours

\* A request that removes the lock it finds before answering: with it in
\* place of ScanFolderCheck a rejected request changes the lock and C19
\* fails.
ScanFolderCheck_Unlinks(w, force) ==
    /\ sc[w].pc = "idle"
    /\ hist.scans < hist.requests
    /\ hist' = [hist EXCEPT !.scans = @ + 1]
    /\ lock' = NoLock
    /\ IF LockIsFresh
       THEN sc' = [sc EXCEPT ![w] = [IdleScan EXCEPT !.via = "rejected"]]
       ELSE sc' = [sc EXCEPT ![w] = [IdleScan EXCEPT !.pc = "create", !.via = "web",
                                                    !.force = force]]
    /\ UNCHANGED <<disk, mode, ffprobe, committed, working, writer, progress, now>>

ScanFolderCheck(w, force) ==
    /\ sc[w].pc = "idle"
    /\ hist.scans < hist.requests
    /\ hist' = [hist EXCEPT !.scans = @ + 1]
    /\ IF LockIsFresh
       THEN /\ sc' = [sc EXCEPT ![w] = [IdleScan EXCEPT !.via = "rejected"]]
            /\ UNCHANGED lock
       ELSE /\ sc' = [sc EXCEPT ![w] = [IdleScan EXCEPT !.pc = "create", !.via = "web",
                                                        !.force = force]]
            /\ lock' = NoLock
    /\ UNCHANGED <<disk, mode, ffprobe, committed, working, writer, progress, now>>

\* web/app.py 365-392: write the lock file and hand wrapped_ingest to the
\* background tasks.
ScanFolderCreate(w) ==
    /\ sc[w].pc = "create"
    /\ lock' = [exists |-> TRUE, mtime |-> now]
    /\ sc' = [sc EXCEPT ![w].pc = "call"]
    /\ UNCHANGED <<disk, mode, ffprobe, committed, working, writer, progress, now, hist>>

\* A wrapped_ingest without its finally clause, which unlinks the lock only
\* after a scan that ended with an error: with it in place of ReleaseLock
\* the lock of a completed scan stays and C20 fails.
ReleaseLock_ExceptOnly(w) ==
    /\ sc[w].pc = "returned"
    /\ sc[w].via = "web"
    /\ lock' = IF sc[w].wrote.status = "error" THEN NoLock ELSE lock
    /\ sc' = [sc EXCEPT ![w].pc = "idle"]
    /\ UNCHANGED <<disk, mode, ffprobe, committed, working, writer, progress, now, hist>>

\* web/app.py 369-379 wrapped_ingest, once ingest_directory has returned:
\* unlink the lock file if there is one.
ReleaseLock(w) ==
    /\ sc[w].pc = "returned"
    /\ sc[w].via = "web"
    /\ lock' = NoLock
    /\ sc' = [sc EXCEPT ![w].pc = "idle"]
    /\ UNCHANGED <<disk, mode, ffprobe, committed, working, writer, progress, now, hist>>

\* An hour passes.
Tick ==
    /\ now < MaxTime
    /\ now' = now + 1
    /\ UNCHANGED <<disk, mode, ffprobe, committed, working, writer, progress, lock, sc, hist>>

\* ------------------------------------------------------ the review resolver
Actions == {"keep", "delete", "ignore", "merge"}

TagsOf(cat, id) == {t[2] : t \in {u \in cat.clip_tags : u[1] = id}}
PlaylistsOf(cat, id) ==
    {e.playlist_id : e \in {f \in cat.playlist_clips : f.clip_id = id}}

\* SELECT MAX(position) FROM playlist_clips WHERE playlist_id = ?, plus one
\* (0 for a playlist without entries)
EndPosition(entries, playlist_id) ==
    LET ps == {e.position : e \in {f \in entries : f.playlist_id = playlist_id}}
    IN  IF ps = {} THEN 0
        ELSE (CHOOSE m \in ps : \A q \in ps : q <= m) + 1

\* A delete that leaves the playlist entries: with it in place of
\* DeleteWithAssociations C14 fails.
DeleteWithAssociations_TagsOnly(cat, id) ==
    [DeleteClip(cat, id) EXCEPT !.clip_tags = {t \in cat.clip_tags : t[1] # id}]

\* DELETE FROM clip_tags WHERE clip_id = ?; DELETE FROM playlist_clips WHERE
\* clip_id = ?; DELETE FROM clips WHERE id = ?
DeleteWithAssociations(cat, id) ==
    [DeleteClip(cat, id) EXCEPT
        !.clip_tags = {t \in cat.clip_tags : t[1] # id},
        !.playlist_clips = {e \in cat.playlist_clips : e.clip_id # id}]

\* A merge that only deletes the duplicate: with it in place of Merge the
\* canonical does not get the duplicate's tags and playlists and C11 fails.
Merge_DeleteOnly(cat, dup_id, canonical_id) ==
    DeleteWithAssociations(cat, dup_id)

\* web/app.py 1141-1168.  INSERT OR IGNORE skips a row whose clip_id is
\* NULL (the column is NOT NULL) and a row whose key exists.
Merge(cat, dup_id, canonical_id) ==
    LET tags_to_add == TagsOf(cat, dup_id) \ TagsOf(cat, canonical_id)
        playlists_to_add == PlaylistsOf(cat, dup_id) \ PlaylistsOf(cat, canonical_id)
        added == IF canonical_id = NULL THEN cat
                 ELSE [cat EXCEPT
                         !.clip_tags = @ \cup {<<canonical_id, t>> : t \in tags_to_add},
                         !.playlist_clips = @ \cup
                             {[playlist_id |-> pl, clip_id |-> canonical_id,
                               position |-> EndPosition(cat.playlist_clips, pl)]
                              : pl \in playlists_to_add}]
    IN  DeleteWithAssociations(added, dup_id)

\* A keep that clears the flag of every clip (an UPDATE without its WHERE):
\* with it in place of Keep other clips' rows change and C12 fails.
Keep_EveryRow(cat, dup_id) ==
    [cat EXCEPT !.clips = {[c EXCEPT !.needs_review = FALSE,
                                     !.duplicate_of = NULL] : c \in cat.clips}]

\* web/app.py 1124-1128:
\* UPDATE clips SET needs_review = 0, duplicate_of = NULL WHERE id = ?
Keep(cat, dup_id) ==
    UpdateClip(cat, dup_id, LAMBDA c : [c EXCEPT !.needs_review = FALSE,
                                                 !.duplicate_of = NULL])

\* An ignore that also clears the link: with it in place of Ignore the
\* duplicate_of of the clip is lost and C13 fails.
Ignore_ClearsLink(cat, dup_id) ==
    UpdateClip(cat, dup_id, LAMBDA c : [c EXCEPT !.needs_review = FALSE,
                                                 !.duplicate_of = NULL])

\* web/app.py 1136-1140: UPDATE clips SET needs_review = 0 WHERE id = ?
Ignore(cat, dup_id) ==
    UpdateClip(cat, dup_id, LAMBDA c : [c EXCEPT !.needs_review = FALSE])

\* web/app.py 1122-1168: the effect of one accepted request on the catalog.
Resolve(cat, dup_id, action, canonical_id) ==
    CASE action = "keep" -> Keep(cat, dup_id)
      [] action = "delete" -> DeleteWithAssociations(cat, dup_id)
      [] action = "ignore" -> Ignore(cat, dup_id)
      [] action = "merge" -> Merge(cat, dup_id, canonical_id)

\* web/app.py 1104-1174 duplicate_action, one transaction of its own
\* connection: it waits for the write lock (a request that finds the
\* database locked for longer than the busy timeout answers 500 and changes
\* nothing).  Where hist.audit is set, hist.last records the request with the
\* catalog before and after it, until a later request or scan changes the
\* catalog again, and hist.resolved the flagged clips that requests were
\* made for.
DuplicateAction(dup_id, action, canonical_id) ==
    /\ writer = NULL
    /\ hist.events < hist.limit
    /\ LET cat == Resolve(committed, dup_id, action, canonical_id)
       IN  committed' = cat /\ working' = cat
    /\ hist' = [hist EXCEPT
                  !.events = @ + 1,
                  !.stable = "none",
                  !.last = IF hist.audit
                           THEN [action |-> action, dup_id |-> dup_id,
                                 canonical_id |-> IF action = "merge"
                                                  THEN canonical_id ELSE NULL,
                                 pre |-> committed,
                                 post |-> Resolve(committed, dup_id, action,
                                                  canonical_id)]
                           ELSE @,
                  !.resolved = IF hist.audit /\ dup_id \in Flagged(committed)
                               THEN @ \cup {dup_id} ELSE @]
    /\ sc' = [w \in Scanners |->
                IF InIngest(w) THEN [sc[w] EXCEPT !.allOk = FALSE] ELSE sc[w]]
    /\ UNCHANGED <<disk, mode, ffprobe, writer, progress, lock, now>>

\* ------------------------------------------- the tag and playlist requests
Tags == {"loop", "vibe"}
Playlists == {1}

\* web/app.py 426-469 update_tags: replace the tag links of the clip.
UpdateTags(clip_id, tags) ==
    /\ writer = NULL
    /\ hist.events < hist.limit
    /\ LET cat == [committed EXCEPT
                     !.clip_tags = {t \in @ : t[1] # clip_id}
                                   \cup {<<clip_id, t>> : t \in tags}]
       IN  committed' = cat /\ working' = cat
    /\ hist' = [hist EXCEPT !.events = @ + 1, !.last = NoRequest]
    /\ UNCHANGED <<disk, mode, ffprobe, writer, progress, lock, now, sc>>

\* web/app.py 777-808 add_clips_to_multiple_playlists, for one clip and one
\* playlist: INSERT OR IGNORE at the end of the playlist.
AddToPlaylist(playlist_id, clip_id) ==
    /\ writer = NULL
    /\ hist.events < hist.limit
    /\ LET cat == IF playlist_id \in PlaylistsOf(committed, clip_id)
                  THEN committed
                  ELSE [committed EXCEPT
                          !.playlist_clips = @ \cup
                             {[playlist_id |-> playlist_id, clip_id |-> clip_id,
                               position |-> EndPosition(committed.playlist_clips,
                                                        playlist_id)]}]
       IN  committed' = cat /\ working' = cat
    /\ hist' = [hist EXCEPT !.events = @ + 1, !.last = NoRequest]
    /\ UNCHANGED <<disk, mode, ffprobe, writer, progress, lock, now, sc>>

\* ------------------------------------------------------------ the folder
\* A file of the folder is deleted.
RemoveFile(p) ==
    /\ disk[p] # Absent
    /\ hist.events < hist.limit
    /\ disk' = [disk EXCEPT ![p] = Absent]
    /\ hist' = [hist EXCEPT !.events = @ + 1,
                            !.stable = IF @ = "none" THEN "none" ELSE "removed"]
    /\ sc' = [w \in Scanners |->
                IF InIngest(w) THEN [sc[w] EXCEPT !.allOk = FALSE] ELSE sc[w]]
    /\ UNCHANGED <<mode, ffprobe, committed, working, writer, progress, lock, now>>

\* A file is created or overwritten with other content.
WriteFile(p, content) ==
    /\ disk[p] # content
    /\ hist.events < hist.limit
    /\ disk' = [disk EXCEPT ![p] = content]
    /\ hist' = [hist EXCEPT !.events = @ + 1, !.stable = "none"]
    /\ sc' = [w \in Scanners |->
                IF InIngest(w) THEN [sc[w] EXCEPT !.allOk = FALSE] ELSE sc[w]]
    /\ UNCHANGED <<mode, ffprobe, committed, working, writer, progress, lock, now>>

\* The ffprobe executable goes from the PATH: from now on every probe
\* raises FileNotFoundError (metadata.py 79-149).
RemoveTool ==
    /\ ffprobe
    /\ hist.events < hist.limit
    /\ ffprobe' = FALSE
    /\ hist' = [hist EXCEPT !.events = @ + 1, !.stable = "none"]
    /\ sc' = [w \in Scanners |->
                IF InIngest(w) THEN [sc[w] EXCEPT !.allOk = FALSE] ELSE sc[w]]
    /\ UNCHANGED <<disk, mode, committed, working, writer, progress, lock, now>>

\* ------------------------------------------------- the duplicate-group API
\* web/app.py 1064-1086: the fields of a clip in the response (filename and
\* size go with path and meta).
DuplicateEntry(c) ==
    [id |-> c.id, path |-> c.path, meta |-> c.meta, phash |-> c.phash,
     thumbnail_path |-> c.thumbnail_path, duration |-> c.duration]

\* web/app.py 1037-1095 api_duplicates: the rows with needs_review = 1, in
\* rowid order; a row without duplicate_of is passed over; the first row
\* met with a given duplicate_of opens the group and is copied into its
\* 'canonical' entry; every row is appended to the 'duplicates' of its
\* group.  The response lists the groups in the order they were opened.
api_duplicates(cat) ==
    LET dup_rows == {c \in cat.clips : c.needs_review /\ c.duplicate_of # NULL}
        Members(canonical_id) == {c \in dup_rows : c.duplicate_of = canonical_id}
        Opener(canonical_id) ==
            CHOOSE c \in Members(canonical_id) :
                \A d \in Members(canonical_id) : c.id <= d.id
        openers == Sorted({Opener(c.duplicate_of).id : c \in dup_rows})
        GroupOf(first) ==
            LET ids == Sorted({c.id : c \in Members(first.duplicate_of)})
            IN  [canonical |-> DuplicateEntry(first),
                 duplicates |-> [i \in 1..Len(ids) |->
                                   DuplicateEntry(ClipById(cat, ids[i]))]]
    IN  [g \in 1..Len(openers) |-> GroupOf(ClipById(cat, openers[g]))]

\* ------------------------------------------------------ the specification
Init ==
    /\ disk \in {VideosOnly(d) : d \in [Paths -> Contents \cup {Absent}]}
    /\ mode \in DUPLICATE_HANDLING_MODES
    /\ ffprobe \in BOOLEAN
    /\ committed = EmptyCatalog
    /\ working = EmptyCatalog
    /\ writer = NULL
    /\ progress = Progress(0, 0, "idle")
    /\ lock = NoLock
    /\ now = 0
    /\ sc = [w \in Scanners |-> IdleScan]
    /\ hist = [stable |-> "none", scans |-> 0, events |-> 0, limit |-> MaxEvents,
               requests |-> 0, audit |-> FALSE, last |-> NoRequest, resolved |-> {},
               scanlimit |-> MaxScans]

\* The catalog under one scanner at a time: scans started by direct calls,
\* review requests and changes of the folder at any moment.
Next ==
    \/ \E force \in BOOLEAN : DirectCall(1, force)
    \/ \E isdir \in BOOLEAN : IngestEnter(1, isdir)
    \/ IngestOpen(1)
    \/ \E outcome \in Outcomes : ProcessFile(1, outcome)
    \/ Prune(1)
    \/ Report(1)
    \/ \E made \in SUBSET Ids(committed) : PostThumbnails(1, made)
    \/ \E dup_id \in 1..committed.seq_clips, action \in Actions,
          canonical_id \in 0..committed.seq_clips :
            DuplicateAction(dup_id, action, canonical_id)
    \/ \E clip_id \in Ids(committed), tags \in SUBSET Tags : UpdateTags(clip_id, tags)
    \/ \E playlist_id \in Playlists, clip_id \in Ids(committed) :
            AddToPlaylist(playlist_id, clip_id)
    \/ \E p \in Paths : RemoveFile(p)
    \/ \E p \in Paths, content \in Contents : WriteFile(p, content)

Spec == Init /\ [][Next]_vars

\* The scan lock: scan_folder requests for a folder of one or two files,
\* served by two threads, each running the scan it starts, while the hours
\* pass.
InitLock ==
    /\ disk \in {VideosOnly(v) : v \in {d \in [Paths -> Contents \cup {Absent}] :
                   d[1] # Absent /\ \A p \in Paths \ {1, 2} : d[p] = Absent}}
    /\ mode = "mark-for-review"
    /\ ffprobe \in BOOLEAN
    /\ committed = EmptyCatalog
    /\ working = EmptyCatalog
    /\ writer = NULL
    /\ progress = Progress(0, 0, "idle")
    /\ lock = NoLock
    /\ now = 0
    /\ sc = [w \in Scanners |-> IdleScan]
    /\ hist = [stable |-> "none", scans |-> 0, events |-> 0, limit |-> 0,
               requests |-> MaxRequests, audit |-> FALSE, last |-> NoRequest,
               resolved |-> {}, scanlimit |-> MaxScans]

NextLock ==
    \/ \E w \in Scanners, force \in BOOLEAN : ScanFolderCheck(w, force)
    \/ \E w \in Scanners : ScanFolderCreate(w)
    \/ \E w \in Scanners, isdir \in BOOLEAN : IngestEnter(w, isdir)
    \/ \E w \in Scanners : IngestOpen(w)
    \/ \E w \in Scanners, outcome \in Outcomes : ProcessFile(w, outcome)
    \/ \E w \in Scanners : Prune(w)
    \/ \E w \in Scanners : Report(w)
    \/ \E w \in Scanners, made \in SUBSET Ids(committed) : PostThumbnails(w, made)
    \/ \E w \in Scanners : ReleaseLock(w)
    \/ Tick

SpecLock == InitLock /\ [][NextLock]_vars

\* The steps of the background task that request thread w has started, from
\* the creation of the lock to its release.  The server's thread pool runs
\* each started task on, so none of them waits forever at a step it can take.
ScanStep(w) ==
    \/ ScanFolderCreate(w)
    \/ \E isdir \in BOOLEAN : IngestEnter(w, isdir)
    \/ IngestOpen(w)
    \/ \E outcome \in Outcomes : ProcessFile(w, outcome)
    \/ Prune(w)
    \/ Report(w)
    \/ \E made \in SUBSET Ids(committed) : PostThumbnails(w, made)
    \/ ReleaseLock(w)

\* The release of the lock: requests for a folder of one file, with the
\* probe tool there or missing, the clock standing still.
InitLockLive ==
    /\ disk \in {VideosOnly(v) : v \in {d \in [Paths -> Contents \cup {Absent}] :
                   d[1] # Absent /\ \A p \in Paths \ {1} : d[p] = Absent}}
    /\ mode = "mark-for-review"
    /\ ffprobe \in BOOLEAN
    /\ committed = EmptyCatalog
    /\ working = EmptyCatalog
    /\ writer = NULL
    /\ progress = Progress(0, 0, "idle")
    /\ lock = NoLock
    /\ now = 0
    /\ sc = [w \in Scanners |-> IdleScan]
    /\ hist = [stable |-> "none", scans |-> 0, events |-> 0, limit |-> 0,
               requests |-> MaxLiveRequests, audit |-> FALSE, last |-> NoRequest,
               resolved |-> {}, scanlimit |-> MaxScans]

NextLockLive ==
    \/ \E w \in Scanners, force \in BOOLEAN : ScanFolderCheck(w, force)
    \/ \E w \in Scanners : ScanStep(w)

SpecLockLive ==
    InitLockLive /\ [][NextLockLive]_vars /\ \A w \in Scanners : WF_vars(ScanStep(w))

\* The review resolver: a folder of two files, or of three with the third
\* a copy of the second, scanned under the flagging policy, with review, tag
\* and
\* playlist requests served between the scans and recorded as they are
\* served.
InitReview ==
    /\ disk \in {VideosOnly(v) : v \in {d \in [Paths -> Contents \cup {Absent}] :
                   /\ d[1] # Absent /\ d[2] # Absent
                   /\ \A p \in Paths \ {1, 2} : d[p] \in {Absent, d[2]}}}
    /\ mode = "mark-for-review"
    /\ ffprobe = TRUE
    /\ committed = EmptyCatalog
    /\ working = EmptyCatalog
    /\ writer = NULL
    /\ progress = Progress(0, 0, "idle")
    /\ lock = NoLock
    /\ now = 0
    /\ sc = [w \in Scanners |-> IdleScan]
    /\ hist = [stable |-> "none", scans |-> 0, events |-> 0,
               limit |-> MaxReviewEvents, requests |-> 0, audit |-> TRUE,
               last |-> NoRequest, resolved |-> {}, scanlimit |-> MaxReviewScans]

NextReview ==
    \/ \E force \in BOOLEAN : DirectCall(1, force)
    \/ IngestEnter(1, TRUE)
    \/ IngestOpen(1)
    \/ ProcessFile(1, "ok")
    \/ Prune(1)
    \/ Report(1)
    \/ PostThumbnails(1, ThumbTargets(committed, sc[1].force))
    \/ \E dup_id \in 1..committed.seq_clips, action \in Actions,
          canonical_id \in 0..committed.seq_clips :
            ~Running(1) /\ DuplicateAction(dup_id, action, canonical_id)
    \/ \E clip_id \in Ids(committed), tags \in SUBSET Tags :
            ~Running(1) /\ UpdateTags(clip_id, tags)
    \/ \E playlist_id \in Playlists, clip_id \in Ids(committed) :
            ~Running(1) /\ AddToPlaylist(playlist_id, clip_id)

SpecReview == InitReview /\ [][NextReview]_vars

\* ================================================================ claims
\* A run of ingest_directory that has returned after a walk in which every
\* file was either skipped as already cataloged or went through the whole
\* pipeline, with no change of the folder and no review request since it
\* started.
CleanlyReturned(w) ==
    /\ sc[w].pc = "returned"
    /\ sc[w].allOk
    /\ hist.stable = "same"

Fingerprints(clips) == {<<c.id, c.phash>> : c \in clips}

\* C1: a scan with force_rescan=False of a folder that has not changed since
\* the previous scan of it leaves the number of clip rows and every clip's
\* stored fingerprint as the previous scan left them.
C1_RescanIdempotent ==
    \A w \in Scanners :
        (CleanlyReturned(w) /\ ~sc[w].force /\ sc[w].since = "same")
        => /\ Cardinality(committed.clips) = Cardinality(sc[w].start)
           /\ Fingerprints(committed.clips) = Fingerprints(sc[w].start)

\* C2: every committed clip with needs_review = true has a duplicate_of that
\* is not null, is not its own id and is the id of a clip that exists.
C2_FlaggedHasCanonical ==
    \A c \in committed.clips :
        c.needs_review =>
            /\ c.duplicate_of # NULL
            /\ c.duplicate_of # c.id
            /\ c.duplicate_of \in Ids(committed)

\* C3: after a scan of a folder with 3 files, one file is deleted and the
\* folder is scanned again with force_rescan=False: the catalog holds
\* exactly the 2 clips of the files still on disk.
C3_ScenarioE ==
    \A w \in Scanners :
        (/\ CleanlyReturned(w) /\ ~sc[w].force /\ sc[w].since = "removed"
         /\ Cardinality(sc[w].start) = 3 /\ Len(sc[w].files) = 2)
        => /\ Cardinality(committed.clips) = 2
           /\ {c.path : c \in committed.clips} = {sc[w].files[i] : i \in 1..2}

\* C4: when ingest_directory has pruned and reports 'complete', every clip
\* row has the scan_id of that scan.
C4_AllStamped ==
    \A w \in Scanners :
        sc[w].pc \in {"report", "thumbs"}
        => \A c \in committed.clips : c.scan_id = sc[w].scan_id

\* C4's case: a forced rescan reports 'complete' after pruning a stale row
\* while a row it stamped survives.
C4_Witness ==
    /\ sc[1].pc = "thumbs"
    /\ progress.status = "complete"
    /\ committed.clips # {}
    /\ \E c \in sc[1].start : c.id \notin Ids(committed)
    /\ \E c \in sc[1].start : c.id \in Ids(committed)

\* C5: when the probe of the first file fails with the tool-missing
\* failure, no later file is processed and the progress left behind by
\* ingest_directory has status 'error' and done < total.
C5_ScenarioF ==
    \A w \in Scanners :
        (sc[w].pc = "returned" /\ sc[w].aborted /\ sc[w].idx = 0)
        => /\ Len(sc[w].ids) = 1
           /\ progress.status = "error"
           /\ progress.done < progress.total

\* C6: at no moment are two ingest_directory runs started through
\* scan_folder in progress.
C6_SingleScan ==
    Cardinality({w \in Scanners : sc[w].via = "web" /\ InIngest(w)}) <= 1

\* The scan of an empty catalog has walked a folder of exactly two files of
\* identical content, both through the whole pipeline.
TwoIdenticalIngested(w) ==
    /\ sc[w].start = {}
    /\ Len(sc[w].files) = 2
    /\ sc[w].idx = 2
    /\ sc[w].allOk
    /\ disk[sc[w].files[1]] = disk[sc[w].files[2]]

\* C7: under mark-for-review, of two identical files ingested in one scan
\* the second's clip is kept with needs_review = true and duplicate_of = the
\* first's clip id, and both clips have stored fingerprints at Hamming
\* distance 0.
C7_ScenarioA ==
    \A w \in Scanners :
        (TwoIdenticalIngested(w) /\ sc[w].pc = "prune" /\ mode = "mark-for-review")
        => /\ {sc[w].ids[1], sc[w].ids[2]} \subseteq Ids(View(w))
           /\ LET first == ClipById(View(w), sc[w].ids[1])
                  second == ClipById(View(w), sc[w].ids[2])
              IN  /\ second.needs_review
                  /\ second.duplicate_of = first.id
                  /\ first.phash # NoHash
                  /\ second.phash # NoHash
                  /\ hamming_distance(first.phash, second.phash) = 0

\* C8: under skip, once a scan that ingested two identical files has
\* finished the catalog holds exactly one row for them, the first file's.
C8_ScenarioB ==
    \A w \in Scanners :
        (TwoIdenticalIngested(w) /\ CleanlyReturned(w) /\ mode = "skip")
        => /\ Cardinality(committed.clips) = 1
           /\ \A c \in committed.clips :
                c.id = sc[w].ids[1] /\ c.path = sc[w].files[1]
           /\ sc[w].ids[2] \notin Ids(committed)

\* C8's case: the skip policy has deleted the second file's row and the scan
\* has returned.
C8_Witness ==
    /\ TwoIdenticalIngested(1) /\ CleanlyReturned(1) /\ mode = "skip"
    /\ sc[1].ids[2] # NULL
    /\ committed.seq_clips = 2

\* C9: no clip has duplicate_of equal to its own id, in the committed
\* catalog and in a scan's uncommitted view of it.
C9_NoSelfReference ==
    \A cat \in {committed, working} :
        \A c \in cat.clips : c.duplicate_of # c.id

\* C9's case: a forced rescan has gone again over a clip whose fingerprint
\* is stored, and the catalog holds a flagged duplicate.
C9_Witness ==
    /\ sc[1].pc = "prune" /\ sc[1].force /\ sc[1].allOk
    /\ \E i \in 1..Len(sc[1].ids) :
         /\ sc[1].ids[i] \in {c.id : c \in sc[1].start}
         /\ ClipById(working, sc[1].ids[i]).phash # NoHash
    /\ \E c \in working.clips : c.duplicate_of # NULL

\* C10: a step that deletes a clip from the catalog leaves no clip_tags and
\* no playlist_clips row that references the deleted id.
C10_DeleteCascades ==
    [][\A id \in Ids(committed) \ Ids(committed') :
          /\ \A t \in committed'.clip_tags : t[1] # id
          /\ \A e \in committed'.playlist_clips : e.clip_id # id]_vars

\* The review request served last, where it is recorded.
ServedLast(action) ==
    /\ hist.last.action = action
    /\ committed = hist.last.post

OtherClips(cat, id) == {c \in cat.clips : c.id # id}

NoAssociations(cat, id) ==
    /\ \A t \in cat.clip_tags : t[1] # id
    /\ \A e \in cat.playlist_clips : e.clip_id # id

\* C11: merge on a flagged duplicate, with its canonical: the canonical has
\* the union of both clips' tags and is in every playlist the duplicate was
\* in, each new entry after all entries the playlist had, and the duplicate
\* and its tag and playlist rows are gone.
C11_MergeUnion ==
    (/\ ServedLast("merge")
     /\ hist.last.dup_id \in Flagged(hist.last.pre)
     /\ hist.last.canonical_id = ClipById(hist.last.pre, hist.last.dup_id).duplicate_of
     /\ hist.last.canonical_id \in Ids(hist.last.pre))
    => LET pre == hist.last.pre
           dup == hist.last.dup_id
           canonical == hist.last.canonical_id
       IN  /\ TagsOf(committed, canonical) = TagsOf(pre, canonical) \cup TagsOf(pre, dup)
           /\ PlaylistsOf(committed, canonical)
                = PlaylistsOf(pre, canonical) \cup PlaylistsOf(pre, dup)
           /\ \A e \in committed.playlist_clips \ pre.playlist_clips :
                /\ e.clip_id = canonical
                /\ \A f \in pre.playlist_clips :
                     f.playlist_id = e.playlist_id => f.position < e.position
           /\ dup \notin Ids(committed)
           /\ NoAssociations(committed, dup)

\* C11's case: the merged duplicate had tag "loop" and a playlist entry, its
\* canonical had tag "vibe" and no entry in that playlist.
C11_Witness ==
    /\ ServedLast("merge")
    /\ hist.last.dup_id \in Flagged(hist.last.pre)
    /\ hist.last.canonical_id = ClipById(hist.last.pre, hist.last.dup_id).duplicate_of
    /\ hist.last.canonical_id \in Ids(hist.last.pre)
    /\ TagsOf(hist.last.pre, hist.last.dup_id) = {"loop"}
    /\ TagsOf(hist.last.pre, hist.last.canonical_id) = {"vibe"}
    /\ PlaylistsOf(hist.last.pre, hist.last.dup_id) = {1}
    /\ PlaylistsOf(hist.last.pre, hist.last.canonical_id) = {}
    /\ TagsOf(committed, hist.last.canonical_id) = {"loop", "vibe"}

\* C12: keep on a flagged duplicate sets its needs_review to false and its
\* duplicate_of to null, keeps the number of clip rows and changes no other
\* clip's row.
C12_KeepFrame ==
    (ServedLast("keep") /\ hist.last.dup_id \in Flagged(hist.last.pre))
    => LET pre == hist.last.pre
           dup == hist.last.dup_id
       IN  /\ dup \in Ids(committed)
           /\ ~ClipById(committed, dup).needs_review
           /\ ClipById(committed, dup).duplicate_of = NULL
           /\ Cardinality(committed.clips) = Cardinality(pre.clips)
           /\ OtherClips(committed, dup) = OtherClips(pre, dup)

\* C12's case: keep was served for a flagged duplicate while its canonical
\* and another flagged duplicate are in the catalog.
C12_Witness ==
    /\ ServedLast("keep")
    /\ hist.last.dup_id \in Flagged(hist.last.pre)
    /\ ClipById(hist.last.pre, hist.last.dup_id).duplicate_of \in Ids(committed)
    /\ Flagged(committed) # {}

\* C13: ignore clears needs_review of the targeted clip and leaves its
\* duplicate_of, its other columns and every other clip as they were.
C13_IgnoreFrame ==
    (ServedLast("ignore") /\ hist.last.dup_id \in Ids(hist.last.pre))
    => LET pre == hist.last.pre
           dup == hist.last.dup_id
       IN  /\ dup \in Ids(committed)
           /\ ClipById(committed, dup) = [ClipById(pre, dup) EXCEPT !.needs_review = FALSE]
           /\ OtherClips(committed, dup) = OtherClips(pre, dup)

\* C13's case: ignore was served for a flagged duplicate, which keeps its
\* link to the canonical, while another flagged duplicate is in the catalog.
C13_Witness ==
    /\ ServedLast("ignore")
    /\ hist.last.dup_id \in Flagged(hist.last.pre)
    /\ ClipById(committed, hist.last.dup_id).duplicate_of # NULL
    /\ Flagged(committed) # {}

\* C14: delete removes the row of the targeted duplicate with all its
\* clip_tags and playlist_clips rows, and removes no other clip row.
C14_DeleteFrame ==
    (ServedLast("delete") /\ hist.last.dup_id \in Flagged(hist.last.pre))
    => LET pre == hist.last.pre
           dup == hist.last.dup_id
       IN  /\ dup \notin Ids(committed)
           /\ NoAssociations(committed, dup)
           /\ committed.clips = OtherClips(pre, dup)

\* C14's case: the deleted duplicate had a tag and a playlist entry.
C14_Witness ==
    /\ ServedLast("delete")
    /\ hist.last.dup_id \in Flagged(hist.last.pre)
    /\ TagsOf(hist.last.pre, hist.last.dup_id) # {}
    /\ PlaylistsOf(hist.last.pre, hist.last.dup_id) # {}
    /\ Cardinality(committed.clips) = 1

\* C15: a review request for a clip id that is missing, or that an earlier
\* request has resolved, leaves the clip rows and the tag and playlist
\* associations as they were.
C15_ResolvedIsNoOp ==
    (/\ hist.last.action \in Actions
     /\ \/ hist.last.dup_id \notin Ids(hist.last.pre)
        \/ /\ hist.last.dup_id \in hist.resolved
           /\ hist.last.dup_id \notin Flagged(hist.last.pre))
    => /\ hist.last.post.clips = hist.last.pre.clips
       /\ hist.last.post.clip_tags = hist.last.pre.clip_tags
       /\ hist.last.post.playlist_clips = hist.last.pre.playlist_clips

\* The walk of scan w has gone past every enumerated file.
WalkDone(w) ==
    /\ sc[w].pc \in {"prune", "report", "thumbs", "returned"}
    /\ sc[w].idx = Len(sc[w].files)
    /\ Len(sc[w].ids) = Len(sc[w].files)

\* C16: a file whose probe raised FFprobeError gets no clip row from the
\* scan; the walk goes on past it and ends only when it has gone over every
\* file or a later file has met the tool-missing failure; and the status
\* the scan reports at its end is 'complete'.
C16_ProbeFailureContinues ==
    \A w \in Scanners :
        \A i \in sc[w].failed :
            /\ \A c \in View(w).clips :
                 c.path = sc[w].files[i] => c.id \in Ids([clips |-> sc[w].start])
            /\ sc[w].ids[i] = NULL
            /\ sc[w].idx >= i
            /\ sc[w].pc # "loop" => (WalkDone(w) \/ sc[w].aborted)
            /\ sc[w].pc \in {"thumbs", "returned"} => progress.status = "complete"

\* C16's case: the probe of the first of two new files failed, the second
\* has got its row and the scan has returned.
C16_Witness ==
    /\ sc[1].pc = "returned"
    /\ WalkDone(1)
    /\ sc[1].failed = {1}
    /\ sc[1].start = {}
    /\ Len(sc[1].files) = 2
    /\ sc[1].ids[2] \in Ids(committed)
    /\ progress.status = "complete"

\* C17: a file gone from the disk when its turn comes, the probe tool being
\* there, is passed over as a file whose probe failed: the walk is not
\* aborted and goes on over every later file.
C17_VanishedFileContinues ==
    \A w \in Scanners :
        (ffprobe /\ sc[w].vanished # {})
        => /\ ~sc[w].aborted
           /\ sc[w].pc # "loop" => WalkDone(w)

\* C18: within one run of ingest_directory each progress record has
\* done <= total and a done not below that of the run's record before it,
\* and every iteration of the walk writes a record.
C18_ProgressMonotone ==
    [][\A w \in Scanners :
          (sc[w].pc \in {"open", "loop", "prune", "report"} /\ sc'[w] # sc[w])
          => /\ sc'[w].wrote.done <= sc'[w].wrote.total
             /\ sc'[w].wrote.done >= sc[w].wrote.done
             /\ sc[w].pc = "loop" =>
                  /\ progress' = sc'[w].wrote
                  /\ progress'.done \in {sc[w].idx, sc[w].idx + 1}]_vars

\* C19: a scan_folder request that finds a lock younger than the staleness
\* timeout is answered at once, and the catalog, the progress record and
\* the lock are as they were.
C19_RejectedLeavesNoState ==
    [][\A w \in Scanners :
          (LockIsFresh /\ sc[w].pc = "idle" /\ sc'[w] # sc[w])
          => /\ sc'[w].pc = "idle"
             /\ sc'[w].via = "rejected"
             /\ committed' = committed
             /\ working' = working
             /\ writer' = writer
             /\ progress' = progress
             /\ lock' = lock]_vars

\* C19's case: a request has been rejected while the scan that holds the
\* lock is running.
C19_Witness ==
    /\ sc[2].via = "rejected"
    /\ sc[2].pc = "idle"
    /\ InIngest(1)
    /\ LockIsFresh

\* C20: whenever the lock file exists, it is gone at some later moment:
\* every scan started through scan_folder releases it, however the scan
\* ends.
C20_LockReleased == lock.exists ~> ~lock.exists

\* C20's case: one scan started through scan_folder was aborted at its
\* first file, another ended on a database error, both have left
\* wrapped_ingest and the lock file is gone.
C20_Witness ==
    /\ \A w \in Scanners : sc[w].via = "web" /\ sc[w].pc = "idle"
    /\ \E w \in Scanners : sc[w].aborted
    /\ \E w \in Scanners : sc[w].wrote = Progress(0, 0, "error")
    /\ ~lock.exists

\* C21: a scan_folder request that finds a lock file whose age has reached
\* the staleness timeout removes it and goes on: it takes a new lock,
\* stamped with the present time, and starts the scan.  A request that
\* finds a lock younger than the timeout starts nothing and leaves the lock.
C21_StaleLockReclaimed ==
    [][/\ (hist'.scans = hist.scans + 1 /\ lock.exists)
          => IF now - lock.mtime >= StaleHours
             THEN /\ ~lock'.exists
                  /\ \E w \in Scanners : /\ sc[w].pc = "idle"
                                         /\ sc'[w].pc = "create"
                                         /\ sc'[w].via = "web"
             ELSE /\ lock' = lock
                  /\ \A w \in Scanners : Running(w)' => Running(w)
                  /\ \E w \in Scanners : /\ sc[w].pc = "idle"
                                         /\ sc'[w].pc = "idle"
                                         /\ sc'[w].via = "rejected"
       /\ \A w \in Scanners :
            (sc[w].pc = "create" /\ sc'[w] # sc[w])
            => /\ lock' = [exists |-> TRUE, mtime |-> now]
               /\ sc'[w].pc = "call"]_vars

\* C21's case: of two requests, the first has started a scan that is still
\* running, and the second has removed the first one's lock, an hour old or
\* more, and is about to write its own.
C21_Witness ==
    /\ hist.scans = 2
    /\ sc[1].via = "web" /\ InIngest(1)
    /\ sc[2].via = "web" /\ sc[2].pc = "create"
    /\ ~lock.exists
    /\ now >= StaleHours

\* C22: no two clip rows have the same path, in the committed catalog and
\* in the catalog as the open transaction sees it: a scan that meets a path
\* already cataloged never adds a second row for it.
C22_PathUnique ==
    \A cat \in {committed, working} :
        \A c, d \in cat.clips : c.path = d.path => c = d

\* C22's case: a forced rescan has processed a path that was cataloged
\* when it began, and has returned with the path still cataloged.
C22_Witness ==
    /\ sc[1].pc = "returned" /\ sc[1].force
    /\ \E i \in 1..Len(sc[1].ids) :
          /\ sc[1].ids[i] # NULL
          /\ \E c \in sc[1].start : c.path = sc[1].files[i]
          /\ \E d \in committed.clips : d.path = sc[1].files[i]

\* The first scan of a folder that holds files of every kind, by a direct
\* call, with every probe, preview and fingerprint succeeding and the
\* folder left alone meanwhile: the rows it leaves, under each policy.
InitFirstScan ==
    /\ disk \in {d \in [Entries -> Contents \cup {Absent}] :
                   \A p \in OtherPaths : d[p] \in {Absent, <<0, 0>>}}
    /\ mode \in DUPLICATE_HANDLING_MODES
    /\ ffprobe = TRUE
    /\ committed = EmptyCatalog
    /\ working = EmptyCatalog
    /\ writer = NULL
    /\ progress = Progress(0, 0, "idle")
    /\ lock = NoLock
    /\ now = 0
    /\ sc = [w \in Scanners |-> IdleScan]
    /\ hist = [stable |-> "none", scans |-> 0, events |-> 0, limit |-> 0,
               requests |-> 0, audit |-> FALSE, last |-> NoRequest,
               resolved |-> {}, scanlimit |-> 1]

NextFirstScan ==
    \/ \E force \in BOOLEAN : DirectCall(1, force)
    \/ \E isdir \in BOOLEAN : IngestEnter(1, isdir)
    \/ IngestOpen(1)
    \/ ProcessFile(1, "ok")
    \/ Prune(1)
    \/ Report(1)
    \/ PostThumbnails(1, ThumbTargets(committed, sc[1].force))

SpecFirstScan == InitFirstScan /\ [][NextFirstScan]_vars

\* Whether two suffixes are the same but for the case of their letters.
SameButForCase(s, t) ==
    /\ Len(s) = Len(t)
    /\ \A i \in 1..Len(s) :
          \/ s[i] = t[i]
          \/ <<s[i], t[i]>> \in CasePairs
          \/ <<t[i], s[i]>> \in CasePairs

\* The files of the folder, at any depth, whose extension is a recognized
\* one, whatever its case.
RecognizedFiles ==
    {p \in Entries : /\ disk[p] # Absent
                     /\ \E e \in DEFAULT_VIDEO_EXTENSIONS :
                           SameButForCase(Suffix(p), e)}

\* A scan of the folder into an empty catalog has returned, after a walk
\* in which every step succeeded.
FirstScanDone(w) ==
    /\ sc[w].pc = "returned"
    /\ sc[w].start = {}
    /\ sc[w].allOk
    /\ Len(sc[w].ids) = Len(sc[w].files)

\* C23 as stated: a scan of a folder into an empty catalog, every probe
\* succeeding, ends with exactly one row per file with a recognized
\* extension and no row for any other file.
C23_OneRowPerVideo ==
    \A w \in Scanners :
        FirstScanDone(w)
        => /\ \A c \in committed.clips : c.path \in RecognizedFiles
           /\ \A c, d \in committed.clips : c.path = d.path => c = d
           /\ \A p \in RecognizedFiles : \E c \in committed.clips : c.path = p

\* C23, amended: such a scan ends with no row for a file without a
\* recognized extension, at most one row per path, and a row for every
\* file with a recognized extension, except, under the skip policy, for the
\* files whose fingerprint is within the threshold of the stored fingerprint
\* of another file's row.
C23_OneRowPerKeptVideo ==
    \A w \in Scanners :
        FirstScanDone(w)
        => /\ \A c \in committed.clips : c.path \in RecognizedFiles
           /\ \A c, d \in committed.clips : c.path = d.path => c = d
           /\ \A p \in RecognizedFiles :
                 \/ \E c \in committed.clips : c.path = p
                 \/ /\ mode = "skip"
                    /\ \E c \in committed.clips :
                          /\ c.path # p
                          /\ c.phash # NoHash
                          /\ hamming_distance(disk[p], c.phash) <= threshold

\* C23's case: the scan has returned from a folder that holds a video named
\* in upper case in a subfolder, a video in the folder itself and a file
\* that is not a video; the upper-case one has its row.
C23_Witness ==
    /\ FirstScanDone(1)
    /\ \E p \in Paths : /\ Suffix(p) # Lower(Suffix(p))
                        /\ Depth(p) = 1
                        /\ \E c \in committed.clips : c.path = p
    /\ \E p \in Paths : Depth(p) = 0 /\ \E c \in committed.clips : c.path = p
    /\ \E p \in OtherPaths : disk[p] # Absent

\* hamming_distance on its own: two fingerprints of one to MaxHexLen hex
\* digits each, and the distances the function returns for them, in both
\* orders and for each with itself.
HexStrings == UNION {[1..n -> 0..15] : n \in 1..MaxHexLen}

NoCalc == [done |-> FALSE, d12 |-> 0, d21 |-> 0, d11 |-> 0, d22 |-> 0]

InitHamming ==
    /\ disk = [p \in Entries |-> Absent]
    /\ mode = "mark-for-review"
    /\ ffprobe = TRUE
    /\ committed = EmptyCatalog
    /\ working = EmptyCatalog
    /\ writer = NULL
    /\ progress = Progress(0, 0, "idle")
    /\ lock = NoLock
    /\ now = 0
    /\ sc = [w \in Scanners |-> IdleScan]
    /\ \E hash1 \in HexStrings, hash2 \in HexStrings :
          hist = [hash1 |-> hash1, hash2 |-> hash2, calc |-> NoCalc]

CallHamming ==
    /\ ~hist.calc.done
    /\ hist' = [hist EXCEPT !.calc =
                  [done |-> TRUE,
                   d12 |-> hamming_distance(hist.hash1, hist.hash2),
                   d21 |-> hamming_distance(hist.hash2, hist.hash1),
                   d11 |-> hamming_distance(hist.hash1, hist.hash1),
                   d22 |-> hamming_distance(hist.hash2, hist.hash2)]]
    /\ UNCHANGED <<disk, mode, ffprobe, committed, working, writer, progress,
                   lock, now, sc>>

NextHamming == CallHamming

SpecHamming == InitHamming /\ [][NextHamming]_vars

\* C24: for two hex fingerprints of the same length, hamming_distance
\* returns the same number in both orders, and 0 for a fingerprint and
\* itself.
C24_HammingSymmetric ==
    (hist.calc.done /\ Len(hist.hash1) = Len(hist.hash2))
    => /\ hist.calc.d12 = hist.calc.d21
       /\ hist.calc.d11 = 0
       /\ hist.calc.d22 = 0

\* C24's case: the function has been applied to two different fingerprints
\* of MaxHexLen digits each, the first with leading zero bits.
C24_Witness ==
    /\ hist.calc.done
    /\ Len(hist.hash1) = MaxHexLen /\ Len(hist.hash2) = MaxHexLen
    /\ hist.hash1[1] = 0 /\ hist.hash2[1] = 15
    /\ hist.calc.d12 > threshold

\* Whether some clip of the catalog other than `id` has a stored fingerprint
\* within the threshold of `phash`.
NearFingerprint(cat, id, phash) ==
    \E c \in cat.clips : /\ c.id # id
                         /\ c.phash # NoHash
                         /\ hamming_distance(phash, c.phash) <= threshold

\* The id of the row that the last iteration of w's walk wrote, or NULL.
LastId(w) ==
    IF Len(sc[w].ids) = 0 THEN NULL ELSE sc[w].ids[Len(sc[w].ids)]

\* C25: an iteration of the walk that fingerprints a clip classifies it as
\* a duplicate exactly when another clip's stored fingerprint is within 5
\* bits of its own (under the flagging policy it is then flagged, under the
\* skip policy its row is deleted); when every other stored fingerprint is
\* further away the clip is unique: its row is unflagged, its duplicate_of
\* is null and its fingerprint is stored.
C25_ClassifiedByDistance ==
    [][\A w \in Scanners :
          (ProcessFile(w, "ok") /\ LastId(w)' # NULL)
          => LET id == LastId(w)'
                 path == sc[w].files[sc[w].idx + 1]
                 after == View(w)'
                 row == ClipById(after, id)
             IN  IF NearFingerprint(View(w), id, disk[path])
                 THEN CASE mode = "skip" -> id \notin Ids(after)
                        [] mode \in {"log", "auto-merge"} -> id \in Ids(after)
                        [] OTHER -> /\ id \in Ids(after)
                                    /\ row.needs_review
                                    /\ row.duplicate_of # NULL
                 ELSE /\ id \in Ids(after)
                      /\ ~row.needs_review
                      /\ row.duplicate_of = NULL
                      /\ row.phash = disk[path]]_vars

\* C26: under the log policy, and under the auto-merge policy alike, an
\* iteration of the walk that detects a duplicate leaves the clip's row in
\* the catalog, unflagged and with duplicate_of null, and otherwise as the
\* row of a clip found unique: stamped by the scan, with its metadata, its
\* preview and its fingerprint.
C26_LoggedDuplicateIsNormal ==
    [][\A w \in Scanners :
          (/\ mode \in {"log", "auto-merge"}
           /\ ProcessFile(w, "ok")
           /\ LastId(w)' # NULL
           /\ NearFingerprint(View(w), LastId(w)', disk[sc[w].files[sc[w].idx + 1]]))
          => LET id == LastId(w)'
                 path == sc[w].files[sc[w].idx + 1]
                 row == ClipById(View(w)', id)
             IN  /\ id \in Ids(View(w)')
                 /\ ~row.needs_review
                 /\ row.duplicate_of = NULL
                 /\ row.path = path
                 /\ row.scan_id = sc[w].scan_id
                 /\ row.meta = disk[path]
                 /\ row.thumbnail_path
                 /\ row.phash = disk[path]]_vars

\* C27: an iteration of a walk without force_rescan that meets a path
\* already cataloged skips it: no probe, preview or fingerprint step runs
\* (nothing fails and nothing aborts the walk, even with the file gone), no
\* row is written, and the catalog is as it was; only the progress record
\* moves on.
C27_SkipIsFrame ==
    [][\A w \in Scanners :
          (/\ sc[w].pc = "loop"
           /\ Len(sc'[w].ids) = Len(sc[w].ids) + 1
           /\ ~sc[w].force
           /\ \E c \in View(w).clips : c.path = sc[w].files[sc[w].idx + 1])
          => /\ committed' = committed
             /\ working' = working
             /\ writer' = writer
             /\ LastId(w)' = NULL
             /\ ~sc'[w].aborted
             /\ sc'[w].idx = sc[w].idx + 1
             /\ sc'[w].failed = sc[w].failed
             /\ sc'[w].vanished = sc[w].vanished
             /\ hist' = hist
             /\ progress' = Progress(Len(sc[w].files), sc[w].idx + 1, "scanning")]_vars

\* C27's case: a rescan without force_rescan has passed a path that was
\* cataloged when it began and whose file has since gone from the disk; the
\* walk went on and the row is as it was.
C27_Witness ==
    /\ sc[1].pc \in {"loop", "prune"}
    /\ ~sc[1].force
    /\ ~sc[1].aborted
    /\ \E i \in 1..sc[1].idx :
          /\ sc[1].ids[i] = NULL
          /\ disk[sc[1].files[i]] = Absent
          /\ \E c \in sc[1].start : c.path = sc[1].files[i] /\ c \in View(1).clips

\* C28: after a scan with force_rescan=True in which every step succeeded,
\* every clip that was cataloged when the scan began and whose file is
\* still on disk has its row, with the same id and path, the metadata of
\* the file and the stamp of the scan; and a clip whose preview existed
\* when the scan began had neither preview nor fingerprint generated again.
C28_ForcedRescanRefreshes ==
    \A w \in Scanners :
        (CleanlyReturned(w) /\ sc[w].force)
        => \A c \in sc[w].start :
              disk[c.path] # Absent
              => /\ \E d \in committed.clips : /\ d.id = c.id
                                               /\ d.path = c.path
                                               /\ d.meta = disk[c.path]
                                               /\ d.scan_id = sc[w].scan_id
                 /\ c.thumbnail_path => c.id \notin sc[w].regen

\* C29: the response of the duplicate-group API holds every flagged clip,
\* each in the group of its duplicate_of; the 'canonical' entry of a group
\* is the clip whose id is that duplicate_of value, and is not one of the
\* group's flagged duplicates.
C29_GroupAnchorIsCanonical ==
    LET groups == api_duplicates(committed)
    IN  /\ \A id \in Flagged(committed) :
              \E g \in 1..Len(groups) :
                 \E i \in 1..Len(groups[g].duplicates) :
                    groups[g].duplicates[i].id = id
        /\ \A g \in 1..Len(groups) :
              \A i \in 1..Len(groups[g].duplicates) :
                 /\ ClipById(committed, groups[g].duplicates[i].id).duplicate_of
                      = groups[g].canonical.id
                 /\ groups[g].duplicates[i].id # groups[g].canonical.id

\* Review and rescan: a folder of two videos scanned under the flagging
\* policy, a keep or ignore request for a clip served between two scans
\* and recorded, and a second scan, forced or not.
InitRescan ==
    /\ disk \in {VideosOnly(v) : v \in {d \in [Paths -> Contents \cup {Absent}] :
                   /\ d[1] # Absent /\ d[2] # Absent
                   /\ \A p \in Paths \ {1, 2} : d[p] = Absent}}
    /\ mode = "mark-for-review"
    /\ ffprobe = TRUE
    /\ committed = EmptyCatalog
    /\ working = EmptyCatalog
    /\ writer = NULL
    /\ progress = Progress(0, 0, "idle")
    /\ lock = NoLock
    /\ now = 0
    /\ sc = [w \in Scanners |-> IdleScan]
    /\ hist = [stable |-> "none", scans |-> 0, events |-> 0,
               limit |-> MaxEvents, requests |-> 0, audit |-> TRUE,
               last |-> NoRequest, resolved |-> {}, scanlimit |-> MaxScans]

NextRescan ==
    \/ \E force \in BOOLEAN : DirectCall(1, force)
    \/ IngestEnter(1, TRUE)
    \/ IngestOpen(1)
    \/ ProcessFile(1, "ok")
    \/ Prune(1)
    \/ Report(1)
    \/ PostThumbnails(1, ThumbTargets(committed, sc[1].force))
    \/ \E dup_id \in 1..committed.seq_clips, action \in {"keep", "ignore"} :
            ~Running(1) /\ DuplicateAction(dup_id, action, NULL)

SpecRescan == InitRescan /\ [][NextRescan]_vars

\* C30: a flagged clip that a keep or ignore request has resolved is never
\* flagged again: as long as its row exists, in the committed catalog or in
\* an open transaction, needs_review is false, whatever scans run later.
C30_ResolvedIsTerminal ==
    \A cat \in {committed, working} :
        \A id \in hist.resolved :
            id \in Ids(cat) => ~ClipById(cat, id).needs_review

\* Scans of a folder of videos by direct calls, every step succeeding, the
\* folder left alone, and the process killed at any moment of a scan.
InitKill ==
    /\ disk \in {VideosOnly(d) : d \in [Paths -> Contents \cup {Absent}]}
    /\ mode \in DUPLICATE_HANDLING_MODES
    /\ ffprobe = TRUE
    /\ committed = EmptyCatalog
    /\ working = EmptyCatalog
    /\ writer = NULL
    /\ progress = Progress(0, 0, "idle")
    /\ lock = NoLock
    /\ now = 0
    /\ sc = [w \in Scanners |-> IdleScan]
    /\ hist = [stable |-> "none", scans |-> 0, events |-> 0, limit |-> 0,
               requests |-> 0, audit |-> FALSE, last |-> NoRequest,
               resolved |-> {}, scanlimit |-> MaxScans]

NextKill ==
    \/ \E force \in BOOLEAN : DirectCall(1, force)
    \/ IngestEnter(1, TRUE)
    \/ IngestOpen(1)
    \/ ProcessFile(1, "ok")
    \/ Prune(1)
    \/ Report(1)
    \/ PostThumbnails(1, ThumbTargets(committed, sc[1].force))
    \/ Kill(1)

SpecKill == InitKill /\ [][NextKill]_vars

\* C31: when the process is killed after k files of the walk have been
\* processed, the persisted catalog holds the row of each of those files
\* for which the walk wrote one (but for a row the skip policy deleted as a
\* duplicate), and every persisted row is consistent on its own: it has
\* its path and the stamp of a scan, and a flag only with its canonical.
C31_KilledScanKeepsRows ==
    \A w \in Scanners :
        sc[w].pc = "killed"
        => /\ \A i \in 1..Len(sc[w].ids) :
                 sc[w].ids[i] # NULL
                 => \/ \E c \in committed.clips : /\ c.id = sc[w].ids[i]
                                                  /\ c.path = sc[w].files[i]
                    \/ /\ mode = "skip"
                       /\ NearFingerprint(committed, sc[w].ids[i],
                                          disk[sc[w].files[i]])
           /\ \A c \in committed.clips :
                 /\ c.path \in Entries
                 /\ c.scan_id # NULL
                 /\ c.needs_review => c.duplicate_of # NULL

\* Scans under a flagging policy of a folder of three videos whose
\* fingerprints are 00, 3f and 1f: 1f is 5 bits from 00 and 1 bit from 3f,
\* which are 6 bits apart.
OrderContents == {<<0, 0>>, <<3, 15>>, <<1, 15>>}

InitOrder ==
    /\ disk \in {VideosOnly(d) : d \in [Paths -> OrderContents]}
    /\ mode \in {"mark-for-review", "other"}
    /\ ffprobe = TRUE
    /\ committed = EmptyCatalog
    /\ working = EmptyCatalog
    /\ writer = NULL
    /\ progress = Progress(0, 0, "idle")
    /\ lock = NoLock
    /\ now = 0
    /\ sc = [w \in Scanners |-> IdleScan]
    /\ hist = [stable |-> "none", scans |-> 0, events |-> 0, limit |-> 0,
               requests |-> 0, audit |-> FALSE, last |-> NoRequest,
               resolved |-> {}, scanlimit |-> MaxScans]

NextOrder ==
    \/ \E force \in BOOLEAN : DirectCall(1, force)
    \/ IngestEnter(1, TRUE)
    \/ IngestOpen(1)
    \/ ProcessFile(1, "ok")
    \/ Prune(1)
    \/ Report(1)
    \/ PostThumbnails(1, ThumbTargets(committed, sc[1].force))

SpecOrder == InitOrder /\ [][NextOrder]_vars

\* C32: when an iteration of the walk finds stored fingerprints of other
\* clips within the threshold of the new fingerprint, the duplicate_of it
\* records is the id of the matching clip of lowest id, whether or not a
\* matching clip of higher id is closer; it is a function of the catalog
\* and the fingerprint.
C32_FirstMatchIsCanonical ==
    [][\A w \in Scanners :
          (/\ ProcessFile(w, "ok")
           /\ LastId(w)' # NULL
           /\ NearFingerprint(View(w), LastId(w)', disk[sc[w].files[sc[w].idx + 1]]))
          => LET id == LastId(w)'
                 phash_str == disk[sc[w].files[sc[w].idx + 1]]
                 row == ClipById(View(w)', id)
             IN  /\ row.needs_review
                 /\ \E c \in View(w).clips :
                       /\ c.id = row.duplicate_of
                       /\ c.id # id
                       /\ c.phash # NoHash
                       /\ hamming_distance(phash_str, c.phash) <= threshold
                       /\ \A d \in View(w).clips :
                             (/\ d.id # id
                              /\ d.phash # NoHash
                              /\ hamming_distance(phash_str, d.phash) <= threshold)
                             => c.id <= d.id]_vars

\* C32's case: a clip is flagged as the duplicate of a clip 5 bits away
\* while the catalog holds, under a higher id, the fingerprint of a clip 1
\* bit away.
C32_Witness ==
    \E c, a, b \in committed.clips :
        /\ c.needs_review
        /\ c.duplicate_of = a.id
        /\ a.id < b.id /\ b.id # c.id
        /\ a.phash # NoHash /\ b.phash # NoHash
        /\ hamming_distance(c.meta, b.phash) < hamming_distance(c.meta, a.phash)
        /\ hamming_distance(c.meta, a.phash) <= threshold

\* The number of bits in which two hex fingerprints differ once both are
\* padded with leading zeros to the width of the longer one.
PaddedDistance(h1, h2) ==
    LET width == 4 * (IF Len(h1) >= Len(h2) THEN Len(h1) ELSE Len(h2))
        p1 == ZFill(Bin(HexToInt(h1)), width)
        p2 == ZFill(Bin(HexToInt(h2)), width)
    IN  Cardinality({i \in 1..width : p1[i] # p2[i]})

\* C33: for two hex fingerprints, of the same length or not,
\* hamming_distance returns the number of differing bits after both are
\* zero-padded to a common width: a value and the same value with leading
\* zero digits are at distance 0.
C33_PaddedToCommonWidth ==
    hist.calc.done
    => /\ hist.calc.d12 = PaddedDistance(hist.hash1, hist.hash2)
       /\ hist.calc.d21 = PaddedDistance(hist.hash2, hist.hash1)

\* What C34 says of an iteration of w's walk in which the preview or the
\* fingerprint of the file fails, but for the three columns of the
\* clusterer: the file's row is there with its path, the metadata of the
\* file and the stamp of the scan, with its preview path if the preview
\* succeeded; no other row changes; the walk goes on.
FailureKeepsState(w, outcome) ==
    LET id == LastId(w)'
        path == sc[w].files[sc[w].idx + 1]
        row == ClipById(View(w)', id)
    IN  /\ id \in Ids(View(w)')
        /\ row.path = path
        /\ row.meta = disk[path]
        /\ row.scan_id = sc[w].scan_id
        /\ row.thumbnail_path
             = IF outcome = "hashfail" THEN TRUE
               ELSE IF id \in Ids(View(w)) THEN ClipById(View(w), id).thumbnail_path
               ELSE FALSE
        /\ {c \in View(w)'.clips : c.id # id} = {c \in View(w).clips : c.id # id}
        /\ ~sc'[w].aborted
        /\ sc'[w].idx = sc[w].idx + 1

\* C34 as stated: after such an iteration the file's row has a null
\* fingerprint, needs_review false and duplicate_of null.
C34_FailureLeavesBareRow ==
    [][\A w \in Scanners : \A outcome \in {"thumbfail", "hashfail"} :
          (ProcessFile(w, outcome) /\ LastId(w)' # NULL)
          => LET row == ClipById(View(w)', LastId(w)')
             IN  /\ FailureKeepsState(w, outcome)
                 /\ row.phash = NoHash
                 /\ ~row.needs_review
                 /\ row.duplicate_of = NULL]_vars

\* C34, amended: after such an iteration the fingerprint, needs_review and
\* duplicate_of of the file's row are as they were before it (null, false
\* and null for a row that the iteration inserted).
C34_FailureKeepsClusterColumns ==
    [][\A w \in Scanners : \A outcome \in {"thumbfail", "hashfail"} :
          (ProcessFile(w, outcome) /\ LastId(w)' # NULL)
          => LET id == LastId(w)'
                 row == ClipById(View(w)', id)
                 old == IF id \in Ids(View(w)) THEN ClipById(View(w), id)
                        ELSE [phash |-> NoHash, needs_review |-> FALSE,
                              duplicate_of |-> NULL]
             IN  /\ FailureKeepsState(w, outcome)
                 /\ row.phash = old.phash
                 /\ row.needs_review = old.needs_review
                 /\ row.duplicate_of = old.duplicate_of]_vars

\* C34's case: in the first scan of the folder the fingerprint of the first
\* file failed; its row is there with its preview and without fingerprint,
\* and the walk has gone on to the second file and beyond.
C34_Witness ==
    /\ sc[1].start = {}
    /\ sc[1].idx >= 2
    /\ ~sc[1].aborted
    /\ hist.events = 1
    /\ \E c \in View(1).clips : /\ c.id = sc[1].ids[1]
                                /\ c.thumbnail_path
                                /\ c.phash = NoHash
                                /\ ~c.needs_review
    /\ \E c \in View(1).clips : c.id = sc[1].ids[2] /\ c.phash # NoHash

\* Scans of a folder of videos by direct calls, with the probe tool there
\* at first and gone at some moment.
InitAbort ==
    /\ disk \in {VideosOnly(d) : d \in [Paths -> Contents \cup {Absent}]}
    /\ mode = "mark-for-review"
    /\ ffprobe = TRUE
    /\ committed = EmptyCatalog
    /\ working = EmptyCatalog
    /\ writer = NULL
    /\ progress = Progress(0, 0, "idle")
    /\ lock = NoLock
    /\ now = 0
    /\ sc = [w \in Scanners |-> IdleScan]
    /\ hist = [stable |-> "none", scans |-> 0, events |-> 0, limit |-> MaxEvents,
               requests |-> 0, audit |-> FALSE, last |-> NoRequest,
               resolved |-> {}, scanlimit |-> MaxScans]

NextAbort ==
    \/ \E force \in BOOLEAN : DirectCall(1, force)
    \/ IngestEnter(1, TRUE)
    \/ IngestOpen(1)
    \/ ProcessFile(1, "ok")
    \/ Prune(1)
    \/ Report(1)
    \/ PostThumbnails(1, ThumbTargets(committed, sc[1].force))
    \/ RemoveTool

SpecAbort == InitAbort /\ [][NextAbort]_vars

\* C35: once a scan has aborted because the probe tool is missing, the
\* clips that were cataloged when it began and whose files its walk did not
\* reach are still in the catalog, from the abort to the return of the scan
\* and after.
C35_AbortSkipsPrune ==
    \A w \in Scanners :
        (sc[w].aborted /\ ~ffprobe)
        => \A c \in sc[w].start :
              (\A i \in 1..sc[w].idx : sc[w].files[i] # c.path)
              => c \in View(w).clips

\* C36: when ingest_directory has returned, the progress record holds a
\* terminal status, 'complete' or 'error', and the last record the run
\* wrote is that one: never 'scanning', also when start_path is not a
\* directory.
C36_TerminalStatus ==
    \A w \in Scanners :
        sc[w].pc = "returned"
        => /\ sc[w].wrote.status \in {"complete", "error"}
           /\ progress.status \in {"complete", "error"}

\* C37: at every moment at which a scan started through scan_folder is
\* running, from the creation of its lock to the return of
\* ingest_directory, the lock file exists, the moments aside at which a
\* request that has just removed a stale lock has yet to write its own: no
\* scan that finishes removes the lock of a scan that is still running.
C37_LockHeldWhileRunning ==
    \A w \in Scanners :
        (sc[w].via = "web" /\ (sc[w].pc = "call" \/ InIngest(w)))
        => \/ lock.exists
           \/ \E v \in Scanners : sc[v].pc = "create"

\* Rescans of changed files: a folder of two videos scanned under the
\* flagging policy, every step succeeding, while the files are overwritten
\* with other content between and during the scans.
InitSwap ==
    /\ disk \in {VideosOnly(v) : v \in {d \in [Paths -> Contents \cup {Absent}] :
                   /\ d[1] # Absent /\ d[2] # Absent
                   /\ \A p \in Paths \ {1, 2} : d[p] = Absent}}
    /\ mode = "mark-for-review"
    /\ ffprobe = TRUE
    /\ committed = EmptyCatalog
    /\ working = EmptyCatalog
    /\ writer = NULL
    /\ progress = Progress(0, 0, "idle")
    /\ lock = NoLock
    /\ now = 0
    /\ sc = [w \in Scanners |-> IdleScan]
    /\ hist = [stable |-> "none", scans |-> 0, events |-> 0,
               limit |-> MaxSwapEvents, requests |-> 0, audit |-> FALSE,
               last |-> NoRequest, resolved |-> {}, scanlimit |-> MaxScans]

NextSwap ==
    \/ \E force \in BOOLEAN : DirectCall(1, force)
    \/ IngestEnter(1, TRUE)
    \/ IngestOpen(1)
    \/ ProcessFile(1, "ok")
    \/ Prune(1)
    \/ Report(1)
    \/ PostThumbnails(1, ThumbTargets(committed, sc[1].force))
    \/ \E p \in {1, 2}, content \in Contents : WriteFile(p, content)

SpecSwap == InitSwap /\ [][NextSwap]_vars

\* The clip that n steps along duplicate_of lead to from clip id, or NULL.
RECURSIVE FollowDuplicateOf(_, _, _)
FollowDuplicateOf(cat, id, n) ==
    IF n = 0 \/ id \notin Ids(cat) THEN id
    ELSE FollowDuplicateOf(cat, ClipById(cat, id).duplicate_of, n - 1)

\* C38: the duplicate_of relation has no cycle, in the committed catalog
\* and in the catalog as an open transaction sees it: no number of steps
\* along duplicate_of leads from a clip back to it.
C38_DuplicateOfAcyclic ==
    \A cat \in {committed, working} :
        \A id \in Ids(cat) :
            \A n \in 1..Cardinality(Ids(cat)) :
                FollowDuplicateOf(cat, id, n) # id

\* Non-forced scans only: direct calls without force_rescan over a folder
\* that changes between and during the scans, under every duplicate policy
\* and every outcome of the per-file steps; no review request is made.
InitUnforced ==
    /\ disk \in {VideosOnly(d) : d \in [Paths -> Contents \cup {Absent}]}
    /\ mode \in DUPLICATE_HANDLING_MODES
    /\ ffprobe = TRUE
    /\ committed = EmptyCatalog
    /\ working = EmptyCatalog
    /\ writer = NULL
    /\ progress = Progress(0, 0, "idle")
    /\ lock = NoLock
    /\ now = 0
    /\ sc = [w \in Scanners |-> IdleScan]
    /\ hist = [stable |-> "none", scans |-> 0, events |-> 0, limit |-> MaxEvents,
               requests |-> 0, audit |-> FALSE, last |-> NoRequest,
               resolved |-> {}, scanlimit |-> MaxScans]

NextUnforced ==
    \/ DirectCall(1, FALSE)
    \/ IngestEnter(1, TRUE)
    \/ IngestOpen(1)
    \/ \E outcome \in Outcomes : ProcessFile(1, outcome)
    \/ Prune(1)
    \/ Report(1)
    \/ PostThumbnails(1, ThumbTargets(committed, sc[1].force))
    \/ \E p \in Paths, content \in Contents : WriteFile(p, content)

SpecUnforced == InitUnforced /\ [][NextUnforced]_vars

\* C39: under non-forced scans every flagged clip points to a clip of the
\* catalog that has a stored fingerprint and is itself unflagged.
C39_FlaggedPointsToStoredCanonical ==
    \A cat \in {committed, working} :
        \A id \in Flagged(cat) :
            LET canonical_id == ClipById(cat, id).duplicate_of
            IN  /\ canonical_id \in Ids(cat)
                /\ ClipById(cat, canonical_id).phash # NoHash
                /\ ~ClipById(cat, canonical_id).needs_review

\* C40: after a request served as a merge the canonical clip, if the
\* catalog held it, is still there, and every tag and every playlist the
\* duplicate had before the request is attached to a clip of the catalog.
C40_MergeKeepsAssociations ==
    hist.last.action = "merge" =>
        LET pre == hist.last.pre
            post == hist.last.post
            dup_id == hist.last.dup_id
            canonical_id == hist.last.canonical_id
        IN  /\ canonical_id \in Ids(pre) => canonical_id \in Ids(post)
            /\ \A t \in TagsOf(pre, dup_id) :
                   \E id \in Ids(post) : t \in TagsOf(post, id)
            /\ \A pl \in PlaylistsOf(pre, dup_id) :
                   \E id \in Ids(post) : pl \in PlaylistsOf(post, id)

====
